---- MODULE Spec2Model ----
(***************************************************************************)
(* Model of simile.py: the animation store kept in the Streamlit session,  *)
(* the serial transport (get_serial_connection / close_serial_connection / *)
(* send_to_board), the upload orchestration (upload_animations) and the    *)
(* frame encoder (image_to_byte_array).                                    *)
(*                                                                         *)
(* Text is modelled as a sequence of one-character strings so that the     *)
(* formatting, joining and stripping the code performs are computed.       *)
(* A duration is a number of tenths of a second (0.1 s = 1, 1.0 s = 10).   *)
(***************************************************************************)
EXTENDS Integers, Sequences, FiniteSets, TLC

\* ---------------------------------------------------------------- bounds
\* at most this many uploaded files are held by the store at a time
MaxStoreFrames == 2
\* at most this many serial handles are opened in one behaviour
MaxHandles == 2
\* at most this many pixels are repainted on a base pattern (SpecEnc)
MaxEdits == 1

\* animation names typed into the text input ("" is the empty input)
Names == { <<"A">>, <<"B">> }
NameInputs == Names \cup { << >> }

\* ------------------------------------------------------------- constants
\* st.session_state.serial_connection = None
None == 0
\* the 8 of range(8) and resize((8, 8))
Side == 8

\* ------------------------------------------------------------------ text
DigitChars == <<"0", "1", "2", "3", "4", "5", "6", "7", "8", "9">>
Whitespace == {" ", "\n", "\t", "\r"}

RECURSIVE BinDigits(_)
BinDigits(n) ==
    IF n < 2 THEN <<DigitChars[n + 1]>>
    ELSE BinDigits(n \div 2) \o <<DigitChars[(n % 2) + 1]>>

RECURSIVE DecDigits(_)
DecDigits(n) ==
    IF n < 10 THEN <<DigitChars[n + 1]>>
    ELSE DecDigits(n \div 10) \o <<DigitChars[(n % 10) + 1]>>

RECURSIVE PadLeft(_, _)
PadLeft(s, w) == IF Len(s) >= w THEN s ELSE PadLeft(<<"0">> \o s, w)

\* f"{byte:08b}"
Format08b(byte) == PadLeft(BinDigits(byte), 8)

\* f"{duration}" of a float that is a whole number of tenths
FormatDuration(d) == DecDigits(d \div 10) \o <<".">> \o DecDigits(d % 10)

RECURSIVE LStrip(_)
LStrip(s) ==
    IF s = << >> THEN s
    ELSE IF Head(s) \in Whitespace THEN LStrip(Tail(s)) ELSE s

RECURSIVE RStrip(_)
RStrip(s) ==
    IF s = << >> THEN s
    ELSE IF s[Len(s)] \in Whitespace THEN RStrip(SubSeq(s, 1, Len(s) - 1)) ELSE s

\* str.strip()
Strip(s) == RStrip(LStrip(s))

\* "".join(f"{byte:08b}" for byte in sprite)
RECURSIVE BinaryString(_)
BinaryString(sprite) ==
    IF sprite = << >> THEN << >>
    ELSE Format08b(Head(sprite)) \o BinaryString(Tail(sprite))

\* ------------------------------------------------------- frame encoder
RECURSIVE BitOr(_, _)
BitOr(a, b) ==
    IF a = 0 THEN b
    ELSE IF b = 0 THEN a
    ELSE (IF a % 2 = 1 \/ b % 2 = 1 THEN 1 ELSE 0) + 2 * BitOr(a \div 2, b \div 2)

ShiftLeft(a, n) == a * (2 ^ n)

\* the inner loop of image_to_byte_array: for x in range(8)
RECURSIVE RowByte(_, _, _, _)
\* faulty variant for C8: shifts by x, so the leftmost column is the low bit
RowByteShiftX(img, y, x, byte) ==
    IF x = Side THEN byte
    ELSE RowByte(img, y, x + 1,
                 IF img[<<x, y>>][1] # 0 THEN BitOr(byte, ShiftLeft(1, x)) ELSE byte)
RowByte(img, y, x, byte) ==
    IF x = Side THEN byte
    ELSE RowByte(img, y, x + 1,
                 IF img[<<x, y>>][1] # 0 THEN BitOr(byte, ShiftLeft(1, 7 - x)) ELSE byte)

\* the outer loop: for y in range(8): ... data.append(byte)
RECURSIVE EncodeRows(_, _, _)
EncodeRows(img, y, data) ==
    IF y = Side THEN data
    ELSE EncodeRows(img, y + 1, Append(data, RowByte(img, y, 0, 0)))

\* img is the decoded RGB image; resizing an 8x8 image to (8, 8) copies it
image_to_byte_array(img) == EncodeRows(img, 0, << >>)

Coords == (0 .. Side - 1) \X (0 .. Side - 1)
Black == <<0, 0, 0>>
Red == <<255, 0, 0>>
DimRed == <<1, 0, 0>>
Green == <<0, 255, 0>>
Pixels == {Black, Red, DimRed, Green}

BlankImage == [c \in Coords |-> Black]
RedImage == [c \in Coords |-> Red]
CheckerImage == [c \in Coords |-> IF (c[1] + c[2]) % 2 = 0 THEN DimRed ELSE Green]
ColumnImage == [c \in Coords |-> IF c[1] = 0 THEN Red ELSE Black]
StairImage == [c \in Coords |-> IF c[1] >= c[2] THEN DimRed ELSE Black]
BasePatterns == {BlankImage, RedImage, CheckerImage, ColumnImage, StairImage}

\* the files offered to a file uploader: two decodable 8x8 images and one
\* file that Image.open cannot decode
Files == { [name |-> "column.png", ok |-> TRUE, px |-> ColumnImage],
           [name |-> "stair.png", ok |-> TRUE, px |-> StairImage],
           [name |-> "broken.png", ok |-> FALSE, px |-> BlankImage] }

\* what the "Duration (s)" number input keyed by a file's name holds, in
\* tenths of a second (each file keeps one value here)
DurationInput == [n \in {"column.png", "stair.png", "broken.png"} |->
                     IF n = "column.png" THEN 10 ELSE 5]

\* ------------------------------------------------------------------ state
VARIABLES
    animations,         \* st.session_state.animations, in insertion order
    serial_connection,  \* st.session_state.serial_connection: None or a handle
    nextHandle,         \* number of serial.Serial objects constructed so far
    isOpen,             \* the handles constructed and not yet closed
    trace,              \* what the handler of the current run did, in order
    lastOp,             \* the handler of the current run, "idle" between runs
    prevGet,            \* the last get_serial_connection call, if any
    img,                \* SpecEnc: the decoded image given to the encoder
    encoded,            \* SpecEnc: the result of image_to_byte_array(img)
    edits               \* SpecEnc: pixels repainted so far

vars == <<animations, serial_connection, nextHandle, isOpen, trace, lastOp,
          prevGet, img, encoded, edits>>
sessionVars == <<animations, serial_connection, nextHandle, isOpen, trace,
                 lastOp, prevGet>>
encVars == <<img, encoded, edits>>

\* ------------------------------------------------------------- transport
\* what the serial port does during one send_to_board call
Env == {"ok", "noport", "openerr", "writeerr"}

CLEAR == <<"C", "L", "E", "A", "R", "\n">>
PLAY_ALL == <<"P", "L", "A", "Y", "_", "A", "L", "L", "\n">>
DEBUG == <<"D", "E", "B", "U", "G", "\n">>
AnimPrefix == <<"A", "N", "I", "M", ":">>
PlayPrefix == <<"P", "L", "A", "Y", ":">>
TestName == <<"T", "E", "S", "T">>

NoAnimationsNotice == "No animations to upload!"
UploadedNotice == "Animations uploaded successfully!"
ConnectErrorNotice == "Error connecting to board"
CommErrorNotice == "Error communicating with board"
UnableNotice == "Unable to connect to board, make sure that it is connected!"
PlayingNotice == "Playing animation"
ClearedNotice == "Board cleared!"
DecodeErrorNotice == "exception while decoding an uploaded file"

\* one entry of the trace
Event(op, data, ser, ok) ==
    [op |-> op, data |-> data, ser |-> ser, ok |-> ok, text |-> "",
     disc |-> FALSE, io |-> "none", hasPrev |-> FALSE, prev |-> None,
     closed |-> FALSE, slot |-> None]
Notice(text) == [Event("notice", << >>, None, TRUE) EXCEPT !.text = text]

Log(T, ev) == [T EXCEPT !.trace = Append(@, ev)]

\* the transport as a handler sees it when it starts
Start ==
    [conn |-> serial_connection, next |-> nextHandle, open |-> isOpen,
     trace |-> << >>, prevGet |-> prevGet, ret |-> None, sent |-> FALSE,
     aborted |-> FALSE]

\* the call record of get_serial_connection: whether find_esp32_port ran,
\* what became of serial.Serial(...), the value returned, and the previous call
GetEvent(T, disc, io, ret) ==
    [Event("get", << >>, ret, io = "opened") EXCEPT
        !.disc = disc, !.io = io, !.hasPrev = T.prevGet.has,
        !.prev = T.prevGet.ret, !.closed = T.prevGet.closed]

Returned(T, disc, io, ret) ==
    [Log(T, GetEvent(T, disc, io, ret)) EXCEPT
        !.ret = ret, !.prevGet = [has |-> TRUE, ret |-> ret, closed |-> FALSE]]

\* find_esp32_port(): the device name of a matching port, or None
find_esp32_port(e) == IF e = "noport" THEN None ELSE 1

\* faulty variant for C6: does not look at the connection slot first
get_serial_connection_always_open(T, e) ==
    LET port == find_esp32_port(e) IN
    IF port # None
    THEN IF e = "openerr"
         THEN Returned(Log(T, Notice(ConnectErrorNotice)), TRUE, "failed", None)
         ELSE LET h == T.next + 1 IN
              Returned([T EXCEPT !.conn = h, !.next = h, !.open = @ \cup {h}],
                       TRUE, "opened", h)
    ELSE Returned(T, TRUE, "none", T.conn)
get_serial_connection(T, e) ==
    IF T.conn = None
    THEN LET port == find_esp32_port(e) IN
         IF port # None
         THEN IF e = "openerr"
              THEN Returned(Log(T, Notice(ConnectErrorNotice)), TRUE, "failed", None)
              ELSE LET h == T.next + 1 IN
                   Returned([T EXCEPT !.conn = h, !.next = h, !.open = @ \cup {h}],
                            TRUE, "opened", h)
         ELSE Returned(T, TRUE, "none", T.conn)
    ELSE Returned(T, FALSE, "none", T.conn)

\* faulty variant for C5: empties the slot without closing the handle
close_serial_connection_leak(T) ==
    LET T1 == [Log(T, Event("close", << >>, T.conn, TRUE)) EXCEPT
                  !.prevGet.closed = TRUE]
    IN  IF T.conn # None THEN [T1 EXCEPT !.conn = None] ELSE T1
close_serial_connection(T) ==
    LET T1 == [Log(T, Event("close", << >>, T.conn, TRUE)) EXCEPT
                  !.prevGet.closed = TRUE]
    IN  IF T.conn # None
        THEN [T1 EXCEPT !.open = @ \ {T.conn}, !.conn = None]
        ELSE T1

\* the call record of send_to_board(data): the handle data was written to
\* (None when nothing was written), what became of the write ("written",
\* "raised", or "none"), the value returned, and the connection slot as the
\* call leaves it
SendReturn(T, data, ser, io, ok) ==
    [Log(T, [Event("send", data, ser, ok) EXCEPT !.io = io, !.slot = T.conn])
        EXCEPT !.sent = ok]

\* faulty variant for C4: keeps the connection when the write raises
send_to_board_keep(T, data, e) ==
    LET T1 == get_serial_connection(T, e)
        ser == T1.ret
    IN  IF ser # None
        THEN IF e # "writeerr"
             THEN SendReturn(T1, data, ser, "written", TRUE)
             ELSE SendReturn(Log(T1, Notice(CommErrorNotice)), data, ser, "raised", FALSE)
        ELSE SendReturn(Log(T1, Notice(UnableNotice)), data, None, "none", FALSE)
send_to_board(T, data, e) ==
    LET T1 == get_serial_connection(T, e)
        ser == T1.ret
    IN  IF ser # None
        THEN IF e # "writeerr"
             THEN SendReturn(T1, data, ser, "written", TRUE)
             ELSE SendReturn(close_serial_connection(Log(T1, Notice(CommErrorNotice))),
                             data, ser, "raised", FALSE)
        ELSE SendReturn(Log(T1, Notice(UnableNotice)), data, None, "none", FALSE)

\* ---------------------------------------------------------------- upload
\* the loop body of upload_animations that builds frame_data over
\* zip(data["sprites"], data["duration"])
RECURSIVE FrameData(_, _, _)
FrameData(sprites, duration, frame_data) ==
    IF sprites = << >> \/ duration = << >> THEN frame_data
    ELSE FrameData(Tail(sprites), Tail(duration),
                   frame_data \o BinaryString(Head(sprites)) \o <<":">>
                              \o FormatDuration(Head(duration)) \o <<" ">>)

\* animation_line = f"ANIM:{anim_name}|{frame_data}\n" after frame_data.strip()
animation_line(anim_name, data) ==
    AnimPrefix \o anim_name \o <<"|">>
        \o Strip(FrameData(data.sprites, data.duration, << >>)) \o <<"\n">>

\* the ways one send_to_board(data) call can go, one per behaviour of the port
SendOutcomes(T, data) ==
    UNION { { send_to_board(T, d, e) : e \in Env } : d \in {data} }

\* for anim_name, data in st.session_state.animations.items(): the set of
\* ways the loop can go from animation i on
RECURSIVE UploadLoop(_, _, _)
\* faulty variant for C2: sends a line for an animation without sprites too
UploadLoopNoSkip(T, anims, i) ==
    IF i > Len(anims) THEN {T}
    ELSE UNION { IF ~T1.sent THEN {[T1 EXCEPT !.aborted = TRUE]}
                 ELSE UploadLoop(T1, anims, i + 1)
                 : T1 \in SendOutcomes(T, animation_line(anims[i].name, anims[i])) }
UploadLoop(T, anims, i) ==
    IF i > Len(anims) THEN {T}
    ELSE IF anims[i].sprites = << >> THEN UploadLoop(T, anims, i + 1)
    ELSE UNION { IF ~T1.sent THEN {[T1 EXCEPT !.aborted = TRUE]}
                 ELSE UploadLoop(T1, anims, i + 1)
                 : T1 \in SendOutcomes(T, animation_line(anims[i].name, anims[i])) }

\* send_to_board("PLAY_ALL\n"); st.success(...), unless the loop returned
PlayAll(T) ==
    IF T.aborted THEN {T}
    ELSE {Log(T1, Notice(UploadedNotice)) : T1 \in SendOutcomes(T, PLAY_ALL)}

\* the set of ways one call of upload_animations can go
\* faulty variant for C3: lacks the check of an empty store
upload_animations_unguarded(T, anims) ==
    UNION { UNION { PlayAll(T2) : T2 \in UploadLoop(T1, anims, 1) }
            : T1 \in SendOutcomes(T, CLEAR) }
upload_animations(T, anims) ==
    IF anims = << >> THEN {Log(T, Notice(NoAnimationsNotice))}
    ELSE UNION { UNION { PlayAll(T2) : T2 \in UploadLoop(T1, anims, 1) }
                 : T1 \in SendOutcomes(T, CLEAR) }

play_specific_animation(T, name, e) ==
    LET T1 == send_to_board(T, PlayPrefix \o name \o <<"\n">>, e)
    IN  IF T1.sent THEN Log(T1, Notice(PlayingNotice)) ELSE T1

clear_board(T, e) ==
    LET T1 == send_to_board(T, CLEAR, e)
    IN  IF T1.sent THEN Log(T1, Notice(ClearedNotice)) ELSE T1

RECURSIVE Repeat(_, _)
Repeat(s, n) == IF n = 0 THEN << >> ELSE s \o Repeat(s, n - 1)

\* test_pattern = "11111111" * 8
test_pattern == Repeat(Repeat(<<"1">>, 8), 8)
TestPatternLine ==
    AnimPrefix \o TestName \o <<"|">> \o test_pattern \o <<":", "1", ".", "0", "\n">>
PlayTestLine == PlayPrefix \o TestName \o <<"\n">>

\* ----------------------------------------------------------------- store
NamesIn(anims) == {anims[i].name : i \in 1 .. Len(anims)}
IndexOf(anims, name) == CHOOSE i \in 1 .. Len(anims) : anims[i].name = name

RECURSIVE TotalFrames(_)
TotalFrames(anims) ==
    IF anims = << >> THEN 0 ELSE Len(Head(anims).sprites) + TotalFrames(Tail(anims))

RemoveAt(s, i) == SubSeq(s, 1, i - 1) \o SubSeq(s, i + 1, Len(s))

create_animation(anims, name) ==
    IF name # << >> /\ name \notin NamesIn(anims)
    THEN Append(anims, [name |-> name, duration |-> << >>, sprites |-> << >>])
    ELSE anims

remove_animation(anims, name) ==
    IF name \in NamesIn(anims) THEN RemoveAt(anims, IndexOf(anims, name)) ELSE anims

\* for sprite in sprites: data["sprites"].append(image_to_byte_array(sprite));
\* Image.open raises on a file it cannot decode and the script run ends there
RECURSIVE DecodeLoop(_, _)
DecodeLoop(files, sprites) ==
    IF files = << >> THEN [sprites |-> sprites, raised |-> FALSE]
    ELSE IF ~Head(files).ok THEN [sprites |-> sprites, raised |-> TRUE]
    ELSE DecodeLoop(Tail(files), Append(sprites, image_to_byte_array(Head(files).px)))

\* the "if sprites:" blocks of the page for one animation: both lists are
\* emptied, the sprites are decoded, then one duration input is shown and
\* read per file; durs is what the inputs hold
frame_upload(data, files, durs) ==
    LET dec == DecodeLoop(files, << >>)
    IN  [data EXCEPT !.sprites = dec.sprites,
                     !.duration = IF dec.raised THEN << >> ELSE durs]

Decodable(files) == \A j \in 1 .. Len(files) : files[j].ok

\* the values read from the duration inputs of a run, one per file in file
\* order; none is shown in a run that ends in the decoding loop
DurationInputs(files) ==
    IF Decodable(files) THEN [j \in 1 .. Len(files) |-> DurationInput[files[j].name]]
    ELSE << >>

FileBatches(n) == UNION { [1 .. m -> Files] : m \in 1 .. n }

\* --------------------------------------------------------------- actions
Init ==
    /\ animations = << >>
    /\ serial_connection = None
    /\ nextHandle = 0
    /\ isOpen = {}
    /\ trace = << >>
    /\ lastOp = "idle"
    /\ prevGet = [has |-> FALSE, ret |-> None, closed |-> FALSE]
    /\ img = << >>
    /\ encoded = << >>
    /\ edits = 0

\* a handler runs when the session waits for an event, and runs to its end
Idle == lastOp = "idle"

Commit(T, op) ==
    /\ T.next <= MaxHandles
    /\ serial_connection' = T.conn
    /\ nextHandle' = T.next
    /\ isOpen' = T.open
    /\ trace' = T.trace
    /\ prevGet' = T.prevGet
    /\ lastOp' = op

StoreOp(anims, op, notices) ==
    /\ animations' = anims
    /\ trace' = notices
    /\ lastOp' = op
    /\ UNCHANGED <<serial_connection, nextHandle, isOpen, prevGet, encVars>>

\* the Connect button
Connect ==
    /\ Idle
    /\ \E e \in Env :
          Commit(get_serial_connection(close_serial_connection(Start), e), "connect")
    /\ UNCHANGED <<animations, encVars>>

\* the Disconnect button
Disconnect ==
    /\ Idle
    /\ Commit(close_serial_connection(Start), "disconnect")
    /\ UNCHANGED <<animations, encVars>>

\* the Upload Animations callback; its own check of the store (lines
\* 111-113) covers a call that finds the store empty
UploadAnimations ==
    /\ Idle
    /\ \E T0 \in {Start} :
          \E T \in upload_animations(T0, animations) :
              Commit(T, "upload_animations")
    /\ UNCHANGED <<animations, encVars>>

\* the Play Animation callback; the button of an animation without sprites
\* is disabled
PlayAnimation ==
    /\ Idle
    /\ \E i \in 1 .. Len(animations), e \in Env :
          /\ animations[i].sprites # << >>
          /\ Commit(play_specific_animation(Start, animations[i].name, e), "play")
    /\ UNCHANGED <<animations, encVars>>

ClearBoard ==
    /\ Idle
    /\ \E e \in Env : Commit(clear_board(Start, e), "clear_board")
    /\ UNCHANGED <<animations, encVars>>

DebugBoard ==
    /\ Idle
    /\ \E e \in Env : Commit(send_to_board(Start, DEBUG, e), "debug")
    /\ UNCHANGED <<animations, encVars>>

UploadTestPattern ==
    /\ Idle
    /\ \E e1 \in Env, e2 \in Env :
          Commit(send_to_board(send_to_board(Start, TestPatternLine, e1),
                               PlayTestLine, e2), "test_pattern")
    /\ UNCHANGED <<animations, encVars>>

CreateAnimation ==
    /\ Idle
    /\ \E name \in NameInputs :
        StoreOp(create_animation(animations, name), "create_animation", << >>)

RemoveAnimation ==
    /\ Idle
    /\ \E name \in Names :
        StoreOp(remove_animation(animations, name), "remove_animation", << >>)

\* a script run in which the file uploader of animation i holds files
UploadFrames ==
    /\ Idle
    /\ \E i \in 1 .. Len(animations) :
      \E files \in FileBatches(MaxStoreFrames - (TotalFrames(animations)
                                                 - Len(animations[i].sprites))) :
        StoreOp([animations EXCEPT
                    ![i] = frame_upload(@, files, DurationInputs(files))],
                "frame_upload",
                IF Decodable(files) THEN << >> ELSE <<Notice(DecodeErrorNotice)>>)

\* the script run ends and the page waits for the next event; what the run
\* displayed and logged is gone with the next run
AwaitEvent ==
    /\ lastOp # "idle"
    /\ lastOp' = "idle"
    /\ trace' = << >>
    /\ UNCHANGED <<animations, serial_connection, nextHandle, isOpen, prevGet, encVars>>

Next ==
    \/ AwaitEvent
    \/ Connect
    \/ Disconnect
    \/ UploadAnimations
    \/ PlayAnimation
    \/ ClearBoard
    \/ DebugBoard
    \/ UploadTestPattern
    \/ CreateAnimation
    \/ RemoveAnimation
    \/ UploadFrames

Spec == Init /\ [][Next]_vars

\* ------------------------------------------------ the encoder on its own
InitEnc ==
    /\ animations = << >>
    /\ serial_connection = None
    /\ nextHandle = 0
    /\ isOpen = {}
    /\ trace = << >>
    /\ lastOp = "idle"
    /\ prevGet = [has |-> FALSE, ret |-> None, closed |-> FALSE]
    /\ img \in BasePatterns
    /\ encoded = << >>
    /\ edits = 0

\* another image is given: one pixel differs
Paint ==
    /\ edits < MaxEdits
    /\ \E c \in Coords, p \in Pixels :
          /\ img[c] # p
          /\ img' = [img EXCEPT ![c] = p]
    /\ encoded' = << >>
    /\ edits' = edits + 1
    /\ UNCHANGED sessionVars

Encode ==
    /\ encoded = << >>
    /\ encoded' = image_to_byte_array(img)
    /\ UNCHANGED <<img, edits, sessionVars>>

NextEnc ==
    \/ Paint
    \/ Encode

SpecEnc == InitEnc /\ [][NextEnc]_vars

\* ------------------------------------------------------------ properties
IsSend(ev) == ev.op = "send"
IsGet(ev) == ev.op = "get"
IsNotice(ev) == ev.op = "notice"

\* the send_to_board calls of the current run, in order
Sends == SelectSeq(trace, IsSend)
\* the lines passed to send_to_board in the current run, in order
SentLines == [i \in 1 .. Len(Sends) |-> Sends[i].data]
\* the notices shown in the current run, in order
Notices == [i \in 1 .. Len(SelectSeq(trace, IsNotice)) |->
               SelectSeq(trace, IsNotice)[i].text]
Shown(text) == \E i \in 1 .. Len(trace) : IsNotice(trace[i]) /\ trace[i].text = text

InUpload == lastOp = "upload_animations"
AllSent == \A i \in 1 .. Len(Sends) : Sends[i].ok
NoFrames == \A i \in 1 .. Len(animations) : animations[i].sprites = << >>

\* C1: in a run of upload_animations, once a send_to_board call has returned
\* false no further line is written to the serial port, and all lines of the
\* run are written over one and the same connection handle.
C1_AbortsOnFirstFailure ==
    InUpload =>
        /\ \A i \in 1 .. Len(Sends) : \A j \in 1 .. Len(Sends) :
              (i < j /\ ~Sends[i].ok) => Sends[j].ser = None
        /\ \A i \in 1 .. Len(Sends) : \A j \in 1 .. Len(Sends) :
              (Sends[i].ser # None /\ Sends[j].ser # None)
                  => Sends[i].ser = Sends[j].ser

\* the ANIM lines of the animations that have sprites, in store order
RECURSIVE AnimLines(_)
AnimLines(anims) ==
    IF anims = << >> THEN << >>
    ELSE IF Head(anims).sprites = << >> THEN AnimLines(Tail(anims))
    ELSE <<animation_line(Head(anims).name, Head(anims))>> \o AnimLines(Tail(anims))

\* C2: when every send succeeds and the store is not empty, the lines written
\* by upload_animations are CLEAR, then one ANIM line per animation that has
\* sprites, in store order, then PLAY_ALL.
C2_UploadSequence ==
    (InUpload /\ animations # << >> /\ AllSent) =>
        /\ SentLines = <<CLEAR>> \o AnimLines(animations) \o <<PLAY_ALL>>
        /\ \A i \in 1 .. Len(Sends) : Sends[i].io = "written"

\* an upload of the store {A: [], B: [frame]} in which every send succeeded
C2_Witness ==
    /\ InUpload
    /\ AllSent
    /\ Len(animations) = 2
    /\ animations[1].sprites = << >>
    /\ animations[2].sprites # << >>
    /\ Len(Sends) = 3

\* C3 as stated: with a store of zero animations, or of animations that all
\* have zero frames, upload_animations calls send_to_board for CLEAR and then
\* PLAY_ALL and for nothing else, and shows no notice about the empty case.
C3_EmptyStoreStillSends ==
    (InUpload /\ NoFrames) =>
        /\ SentLines = <<CLEAR, PLAY_ALL>>
        /\ ~Shown(NoAnimationsNotice)

\* C3 amended: with a non-empty store of animations that all have zero frames,
\* upload_animations calls send_to_board for CLEAR and then PLAY_ALL and for
\* nothing else and shows no notice about the empty case; with a store of zero
\* animations it calls send_to_board for nothing and shows only the
\* "No animations to upload!" notice.
C3_EmptyCases ==
    InUpload =>
        /\ (animations # << >> /\ NoFrames) =>
              /\ SentLines = <<CLEAR, PLAY_ALL>>
              /\ ~Shown(NoAnimationsNotice)
        /\ animations = << >> =>
              /\ Sends = << >>
              /\ Notices = <<NoAnimationsNotice>>

\* an upload of a store whose only animation has no frame, both lines written
C3_Witness ==
    /\ InUpload
    /\ animations # << >>
    /\ NoFrames
    /\ Len(Sends) = 2
    /\ AllSent

\* the get_serial_connection calls that follow position i of the trace
LaterGets(i) == {j \in (i + 1) .. Len(trace) : IsGet(trace[j])}

\* C4: when the write inside send_to_board raises, send_to_board returns
\* false and leaves the connection slot empty with the handle closed, and the
\* next get_serial_connection call runs port discovery and does not return the
\* failed handle.
C4_WriteErrorDisconnects ==
    \A i \in 1 .. Len(trace) :
        (IsSend(trace[i]) /\ trace[i].io = "raised") =>
            /\ ~trace[i].ok
            /\ trace[i].slot = None
            /\ trace[i].ser \notin isOpen
            /\ LaterGets(i) = {} => serial_connection = None
            /\ \A j \in LaterGets(i) :
                  (\A k \in LaterGets(i) : j <= k) =>
                      /\ trace[j].disc
                      /\ trace[j].ser # trace[i].ser

\* a run whose first write raised and whose next send went over a new handle
C4_Witness ==
    /\ lastOp = "test_pattern"
    /\ Len(Sends) = 2
    /\ Sends[1].io = "raised"
    /\ Sends[2].io = "written"
    /\ Sends[2].ser # Sends[1].ser

\* C5: every handle that was opened and is not held in the connection slot
\* has been closed, so at most one handle is open at a time.
C5_AtMostOneOpen ==
    /\ \A h \in 1 .. nextHandle : h # serial_connection => h \notin isOpen
    /\ Cardinality(isOpen) <= 1

\* a second handle is held after the first one was opened and given up
C5_Witness ==
    /\ nextHandle >= 2
    /\ serial_connection = nextHandle
    /\ serial_connection \in isOpen

\* C6 as stated: of any two consecutive get_serial_connection calls with no
\* close_serial_connection call between them, the second returns what the
\* first returned and runs no port discovery, no port open, no settle delay.
C6_Idempotent ==
    \A i \in 1 .. Len(trace) :
        (IsGet(trace[i]) /\ trace[i].hasPrev /\ ~trace[i].closed) =>
            /\ trace[i].ser = trace[i].prev
            /\ ~trace[i].disc
            /\ trace[i].io = "none"

\* C6 amended: of two consecutive get_serial_connection calls with no
\* close_serial_connection call between them, when the first returned a
\* connection handle the second returns the same handle and runs no port
\* discovery, no port open and no settle delay.
C6_IdempotentWhenConnected ==
    \A i \in 1 .. Len(trace) :
        (IsGet(trace[i]) /\ trace[i].hasPrev /\ ~trace[i].closed
            /\ trace[i].prev # None) =>
            /\ trace[i].ser = trace[i].prev
            /\ ~trace[i].disc
            /\ trace[i].io = "none"

\* a get_serial_connection call that follows one that returned a handle
C6_Witness ==
    \E i \in 1 .. Len(trace) :
        /\ IsGet(trace[i])
        /\ trace[i].hasPrev
        /\ ~trace[i].closed
        /\ trace[i].prev # None
        /\ trace[i].ser = trace[i].prev

\* C7: every animation of the store has as many durations as sprites, between
\* any two handlers (where create, remove, play and upload observe the store).
C7_DurationsMatchSprites ==
    \A i \in 1 .. Len(animations) :
        Len(animations[i].duration) = Len(animations[i].sprites)

\* bit n of byte b
Bit(b, n) == (b \div (2 ^ n)) % 2

\* C8: image_to_byte_array returns 8 bytes, and bit (7-x) of byte y is 1
\* exactly when pixel (x, y) has a non-zero red channel.
C8_RowPacking ==
    encoded # << >> =>
        /\ Len(encoded) = 8
        /\ \A x \in 0 .. 7 : \A y \in 0 .. 7 :
              (Bit(encoded[y + 1], 7 - x) = 1) <=> (img[<<x, y>>][1] # 0)
        /\ \A y \in 1 .. 8 : encoded[y] \in 0 .. 255
        /\ img = BlankImage => encoded = <<0, 0, 0, 0, 0, 0, 0, 0>>
        /\ img = RedImage => encoded = <<255, 255, 255, 255, 255, 255, 255, 255>>
        /\ img = [BlankImage EXCEPT ![<<0, 0>>] = Red] => encoded[1] = 128
        /\ img = [BlankImage EXCEPT ![<<7, 0>>] = Red] => encoded[1] = 1

\* the image that is red only at its top right pixel has been encoded
C8_Witness ==
    /\ img = [BlankImage EXCEPT ![<<7, 0>>] = Red]
    /\ encoded = <<1, 0, 0, 0, 0, 0, 0, 0>>

\* s cut at each of its spaces, as s.split(" ") cuts it
Spaces(s) == {i \in 1 .. Len(s) : s[i] = " "}
Cut(s, k) ==
    IF k = 0 THEN 0
    ELSE IF k > Cardinality(Spaces(s)) THEN Len(s) + 1
    ELSE CHOOSE p \in Spaces(s) : Cardinality({q \in Spaces(s) : q < p}) = k - 1
SplitAtSpaces(s) ==
    [k \in 1 .. Cardinality(Spaces(s)) + 1 |-> SubSeq(s, Cut(s, k - 1) + 1, Cut(s, k) - 1)]

HasPrefix(s, prefix) ==
    Len(s) >= Len(prefix) /\ SubSeq(s, 1, Len(prefix)) = prefix

\* line is "ANIM:" name "|" segments "\n" with one segment per sprite of data,
\* separated by single spaces: the sprite's 64 binary digits, ":" and the
\* duration of that sprite
WellFormedAnimLine(line, name, data) ==
    LET head == AnimPrefix \o name \o <<"|">>
        segments == SplitAtSpaces(SubSeq(line, Len(head) + 1, Len(line) - 1))
    IN  /\ HasPrefix(line, head)
        /\ line[Len(line)] = "\n"
        /\ Len(segments) = Len(data.sprites)
        /\ \A i \in 1 .. Len(data.sprites) :
              /\ i <= Len(data.duration)
              /\ segments[i] = BinaryString(data.sprites[i]) \o <<":">>
                                  \o FormatDuration(data.duration[i])

\* C9: the ANIM line upload_animations builds for an animation with N >= 1
\* frames has N segments joined by single spaces, each the frame's 64 binary
\* digits, ":" and that frame's duration, in frame order.
C9_AnimLineFormat ==
    InUpload =>
        \A i \in 1 .. Len(animations) : \A j \in 1 .. Len(Sends) :
            (animations[i].sprites # << >>
                /\ HasPrefix(Sends[j].data, AnimPrefix \o animations[i].name \o <<"|">>))
            => WellFormedAnimLine(Sends[j].data, animations[i].name, animations[i])

\* C10: a run of upload_animations in which a send_to_board call returned
\* false does not show the "Animations uploaded successfully!" notice.
C10_SuccessOnlyWhenAllSent ==
    (InUpload /\ Shown(UploadedNotice)) => AllSent

====
